---- MODULE Spec2Model ----
(***************************************************************************)
(* FSM Backend (src/main.py): registration, login, bearer-token identity   *)
(* resolution and organization-scoped jobs over a document store.          *)
(*                                                                         *)
(* The two collections are append-only sequences (insertion order is the   *)
(* order find_one / find return documents in).  Time is a clock counted in *)
(* ticks of 1/TicksPerSec second; token expiry is kept in whole seconds,    *)
(* as the token codec stores it.                                           *)
(***************************************************************************)
EXTENDS Integers, Sequences, FiniteSets, TLC

\* ------------------------------------------------------------ bounds
MaxUsers == 2          \* registrations that may pass the existence check
MaxJobs == 2           \* documents inserted into the job collection
MaxTokens == 2         \* tokens handed out by login (or the codec run)
MaxTicks == 2          \* clock ticks taken before and after the day the clock jumps
TicksPerSec == 2       \* clock resolution: ticks per second

\* ------------------------------------------------- program constants
\* main.py:26
ACCESS_TOKEN_EXPIRE_MINUTES == 60 * 24
\* main.py:198  .limit(50)
JobsLimit == 50

None == "<None>"
\* a token without an exp claim; expires_delta = None
NoExp == 0 - 1
NoDelta == 0 - 1

DefaultTtlTicks == ACCESS_TOKEN_EXPIRE_MINUTES * 60 * TicksPerSec

Procs == {1, 2}

\* ------------------------------------------------------------ inputs
\* UserCreate bodies sent to POST /auth/register
RegisterInputs ==
  { [name |-> "A",  email |-> "a@x.com", password |-> "pw1", organization |-> "Acme"],
    [name |-> "A2", email |-> "a@X.COM", password |-> "pw2", organization |-> "Beta"],
    [name |-> "B",  email |-> "b@x.com", password |-> "pw1", organization |-> None] }

Passwords == {"pw1", "pw2"}
Usernames == {"a@x.com", "b@x.com", "z@x.com", "l@x.com", "nobody@x.com"}
JobInputs == {"fix boiler"}

\* ------------------------------------------------ password hashing
\* A digest string: a well-formed bcrypt digest of pw under salt, or a
\* string that is no bcrypt digest ("" is what login substitutes).
Bcrypt(pw, salt) == [kind |-> "bcrypt", pw |-> pw, salt |-> salt]
EmptyString == [kind |-> "empty", pw |-> "", salt |-> 0]
NullHash == [kind |-> "null", pw |-> "", salt |-> 0]

get_password_hash(password, salt) == Bcrypt(password, salt)

\* pwd_context.verify: None -> False; a string no scheme identifies ->
\* UnknownHashError; otherwise the digest is recomputed under its salt.
verify_password(plain_password, hashed_password) ==
  CASE hashed_password.kind = "null" -> "false"
    [] hashed_password.kind = "bcrypt" ->
         IF hashed_password.pw = plain_password THEN "true" ELSE "false"
    [] OTHER -> "raise"

\* ------------------------------------------------------ credentials
\* EmailStr validation returns the address with its domain lower-cased.
NormalizeEmail(e) == IF e = "a@X.COM" THEN "a@x.com" ELSE e

\* A stored document; absent names the keys the document does not hold.
UserDoc(id, name, email, hash, role, active, org, absent) ==
  [id |-> id, name |-> name, email |-> email, password_hash |-> hash,
   role |-> role, is_active |-> active, organization |-> org, absent |-> absent]

\* dict.get(key, default)
DocGet(doc, key, default) == IF key \in doc.absent THEN default ELSE doc[key]

\* Documents the collection may hold before the process starts: one
\* deactivated account and one written without a password_hash.
LegacyInactive ==
  UserDoc(1, "Z", "z@x.com", Bcrypt("pw1", 0), "tech", FALSE, "Acme", {})
LegacyNoHash ==
  UserDoc(2, "L", "l@x.com", EmptyString, "owner", TRUE, "", {"password_hash", "role", "is_active"})
InitialStore == <<LegacyInactive, LegacyNoHash>>

RECURSIVE FirstIndex(_, _, _)
FirstIndex(coll, email, i) ==
  IF i > Len(coll) THEN 0
  ELSE IF coll[i].email = email THEN i
  ELSE FirstIndex(coll, email, i + 1)

\* find_one with the filter dropped: any first document
find_one_Unfiltered(coll, email) == IF Len(coll) > 0 THEN 1 ELSE 0

\* db["authuser"].find_one({"email": email}): index of the first match, 0 for None
find_one(coll, email) == FirstIndex(coll, email, 1)

\* ------------------------------------------------------ token codec
Timegm(t) == t \div TicksPerSec

NoToken == [sig |-> "none", sub |-> None, exp |-> NoExp]

\* expires_delta or timedelta(minutes=ACCESS_TOKEN_EXPIRE_MINUTES):
\* None and timedelta(0) are both falsy.
EffectiveTtl(expires_delta) ==
  IF expires_delta = NoDelta \/ expires_delta = 0 THEN DefaultTtlTicks ELSE expires_delta

create_access_token(data, expires_delta, t) ==
  [sig |-> "ok", sub |-> data.sub, exp |-> Timegm(t + EffectiveTtl(expires_delta))]

\* decoding with the expiry check left out
DecodeOk_NoExpiry(token, t) == token.sig = "ok"

\* jwt.decode: the payload, or JWTError on a bad signature or an exp in the past
DecodeOk(token, t) ==
  /\ token.sig = "ok"
  /\ (token.exp = NoExp \/ ~(token.exp < Timegm(t)))

\* what a client keeps of a login: the token and the subject it asked for
Grant(token, data) == [token |-> token, data |-> data]

\* what a caller keeps of a call to create_access_token
TimedGrant(token, data, expires_delta, t) ==
  [token |-> token, data |-> data, ttl |-> expires_delta, at |-> t]

\* ------------------------------------------------------------- state
VARIABLES
  dbConfigured,  \* database.db is not None (fixed when the process starts)
  store,         \* db["authuser"], in insertion order
  jobs,          \* db["job"], in insertion order
  now,           \* the clock, in ticks
  salts,         \* digests computed so far (each call draws a fresh salt)
  issued,        \* tokens handed out, each with what it was asked for
  pc,            \* per worker thread: position inside register
  doc,           \* per worker thread: the document register is about to insert
  last           \* the response being returned for the request just handled

vars == <<dbConfigured, store, jobs, now, salts, issued, pc, doc, last>>

NoDoc == UserDoc(0, "", "", NullHash, "", FALSE, None, {})

\* ---------------------------------------------------------- responses
CredentialsDetail == "Could not validate credentials"

Response(op, code, detail) ==
  [op |-> op, status |-> code, detail |-> detail, challenge |-> None,
   email |-> None, password |-> None, token |-> NoToken,
   ident |-> {}, body |-> FALSE, out |-> NoToken, items |-> <<>>]

\* no response is on its way out
Idle == Response("idle", 0, "")

credentials_exception(op) ==
  [Response(op, 401, CredentialsDetail) EXCEPT !.challenge = "Bearer"]

\* UserPublic built from a stored document
UserPublic(user) ==
  [id |-> user.id, name |-> user.name, email |-> user.email,
   role |-> DocGet(user, "role", "owner"),
   is_active |-> DocGet(user, "is_active", TRUE),
   organization |-> user.organization]

\* get_user_by_email: "500" when db is None, else find_one's result
get_user_by_email(email) ==
  IF ~dbConfigured THEN [raised |-> TRUE, idx |-> 0]
  ELSE [raised |-> FALSE, idx |-> find_one(store, email)]

\* the gate looking the store up before it has decoded the token
get_current_user_StoreFirst(op, token) ==
  IF token = NoToken
    THEN [Response(op, 401, "Not authenticated") EXCEPT !.challenge = "Bearer"]
  ELSE IF ~dbConfigured
    THEN [Response(op, 500, "Database not configured") EXCEPT !.token = token]
  ELSE IF ~DecodeOk(token, now) \/ token.sub = None
    THEN [credentials_exception(op) EXCEPT !.token = token]
  ELSE IF find_one(store, token.sub) = 0
    THEN [credentials_exception(op) EXCEPT !.token = token]
  ELSE [Response(op, 200, "") EXCEPT
          !.token = token,
          !.ident = {UserPublic(store[find_one(store, token.sub)])}]

\* the gate turning deactivated accounts away
get_current_user_ActiveOnly(op, token) ==
  IF token = NoToken
    THEN [Response(op, 401, "Not authenticated") EXCEPT !.challenge = "Bearer"]
  ELSE IF ~DecodeOk(token, now) \/ token.sub = None
    THEN [credentials_exception(op) EXCEPT !.token = token]
  ELSE IF ~dbConfigured
    THEN [Response(op, 500, "Database not configured") EXCEPT !.token = token]
  ELSE IF find_one(store, token.sub) = 0
    THEN [credentials_exception(op) EXCEPT !.token = token]
  ELSE IF ~UserPublic(store[find_one(store, token.sub)]).is_active
    THEN [credentials_exception(op) EXCEPT !.token = token]
  ELSE [Response(op, 200, "") EXCEPT
          !.token = token,
          !.ident = {UserPublic(store[find_one(store, token.sub)])}]

\* Depends(get_current_user): the response the gate produces for op; status 200
\* carries the Authenticated Identity in ident and lets the route body run.
get_current_user(op, token) ==
  IF token = NoToken
    THEN [Response(op, 401, "Not authenticated") EXCEPT !.challenge = "Bearer"]
  ELSE IF ~DecodeOk(token, now) \/ token.sub = None
    THEN [credentials_exception(op) EXCEPT !.token = token]
  ELSE LET found == get_user_by_email(token.sub) IN
    IF found.raised
      THEN [Response(op, 500, "Database not configured") EXCEPT !.token = token]
    ELSE IF found.idx = 0
      THEN [credentials_exception(op) EXCEPT !.token = token]
    ELSE [Response(op, 200, "") EXCEPT !.token = token,
                                       !.ident = {UserPublic(store[found.idx])}]

\* ------------------------------------------------------------ tokens
\* Tokens a client may present: none, one it was issued, and ones minted by
\* somebody else (without the key, or with it).
ForgedTokens ==
  { [sig |-> "bad", sub |-> "a@x.com", exp |-> NoExp],
    [sig |-> "ok", sub |-> None, exp |-> NoExp],
    [sig |-> "ok", sub |-> "nobody@x.com", exp |-> NoExp] }
PresentedTokens ==
  {NoToken} \cup {g.token : g \in issued} \cup ForgedTokens

\* -------------------------------------------------------------- Init
Init ==
  /\ dbConfigured \in BOOLEAN
  /\ store = InitialStore
  /\ jobs = <<>>
  /\ now = 0
  /\ salts = 0
  /\ issued = {}
  /\ pc = [p \in Procs |-> "idle"]
  /\ doc = [p \in Procs |-> NoDoc]
  /\ last = Idle

\* ---------------------------------------------------------- register
\* main.py:148-152: the existence check; main.py:153-160: the document
RegisterCheck(p, user) ==
  /\ pc[p] = "idle"
  /\ last = Idle
  /\ LET email == NormalizeEmail(user.email) IN
     IF ~dbConfigured
       THEN /\ last' = [Response("register", 500, "Database not configured")
                          EXCEPT !.email = email]
            /\ UNCHANGED <<pc, doc, salts>>
     ELSE IF find_one(store, email) # 0
       THEN /\ last' = [Response("register", 400, "Email already registered")
                          EXCEPT !.email = email]
            /\ UNCHANGED <<pc, doc, salts>>
     ELSE /\ salts < MaxUsers
          /\ salts' = salts + 1
          /\ doc' = [doc EXCEPT ![p] =
                UserDoc(0, user.name, email,
                        get_password_hash(user.password, salts + 1),
                        "owner", TRUE, user.organization, {})]
          /\ pc' = [pc EXCEPT ![p] = "insert"]
          /\ last' = last
  /\ UNCHANGED <<dbConfigured, store, jobs, now, issued>>

\* an insert that the store refuses when the email is already held
RegisterInsert_UniqueIndex(p) ==
  /\ pc[p] = "insert"
  /\ last = Idle
  /\ IF find_one(store, doc[p].email) # 0
       THEN /\ last' = [Response("register", 400, "Email already registered")
                          EXCEPT !.email = doc[p].email]
            /\ UNCHANGED store
       ELSE LET new == [doc[p] EXCEPT !.id = Len(store) + 1] IN
            /\ store' = Append(store, new)
            /\ last' = [Response("register", 200, "") EXCEPT
                          !.email = new.email,
                          !.ident = {UserPublic(new)}]
  /\ pc' = [pc EXCEPT ![p] = "idle"]
  /\ doc' = [doc EXCEPT ![p] = NoDoc]
  /\ UNCHANGED <<dbConfigured, jobs, now, salts, issued>>

\* main.py:161-162: insert_one and the response
RegisterInsert(p) ==
  /\ pc[p] = "insert"
  /\ last = Idle
  /\ LET new == [doc[p] EXCEPT !.id = Len(store) + 1] IN
       /\ store' = Append(store, new)
       /\ last' = [Response("register", 200, "") EXCEPT
                     !.email = new.email,
                     !.ident = {UserPublic(new)}]
  /\ pc' = [pc EXCEPT ![p] = "idle"]
  /\ doc' = [doc EXCEPT ![p] = NoDoc]
  /\ UNCHANGED <<dbConfigured, jobs, now, salts, issued>>

\* register without the existence check
Register_NoCheck(p, user) ==
  /\ \A q \in Procs : pc[q] = "idle"
  /\ last = Idle
  /\ LET email == NormalizeEmail(user.email) IN
     IF ~dbConfigured
       THEN /\ last' = [Response("register", 500, "Database not configured")
                          EXCEPT !.email = email]
            /\ UNCHANGED <<store, salts>>
     ELSE LET new == UserDoc(Len(store) + 1, user.name, email,
                             get_password_hash(user.password, salts + 1),
                             "owner", TRUE, user.organization, {}) IN
          /\ salts < MaxUsers
          /\ salts' = salts + 1
          /\ store' = Append(store, new)
          /\ last' = [Response("register", 200, "") EXCEPT
                        !.email = email, !.ident = {UserPublic(new)}]
  /\ UNCHANGED <<dbConfigured, jobs, now, issued, pc, doc>>

\* register run to completion by one worker with no other register in flight
Register(p, user) ==
  /\ \A q \in Procs : pc[q] = "idle"
  /\ last = Idle
  /\ LET email == NormalizeEmail(user.email) IN
     IF ~dbConfigured
       THEN /\ last' = [Response("register", 500, "Database not configured")
                          EXCEPT !.email = email]
            /\ UNCHANGED <<store, salts>>
     ELSE IF find_one(store, email) # 0
       THEN /\ last' = [Response("register", 400, "Email already registered")
                          EXCEPT !.email = email]
            /\ UNCHANGED <<store, salts>>
     ELSE LET new == UserDoc(Len(store) + 1, user.name, email,
                             get_password_hash(user.password, salts + 1),
                             "owner", TRUE, user.organization, {}) IN
          /\ salts < MaxUsers
          /\ salts' = salts + 1
          /\ store' = Append(store, new)
          /\ last' = [Response("register", 200, "") EXCEPT
                        !.email = email, !.ident = {UserPublic(new)}]
  /\ UNCHANGED <<dbConfigured, jobs, now, issued, pc, doc>>

\* ------------------------------------------------------------- login
login(username, password) ==
  /\ last = Idle
  /\ LET found == get_user_by_email(username)
         base(code, detail) ==
           [Response("login", code, detail) EXCEPT !.email = username,
                                                   !.password = password]
     IN
     IF found.raised
       THEN /\ last' = base(500, "Database not configured")
            /\ UNCHANGED issued
     ELSE IF found.idx = 0
       THEN /\ last' = base(400, "Incorrect email or password")
            /\ UNCHANGED issued
     ELSE LET user == store[found.idx]
              verdict == verify_password(password,
                            DocGet(user, "password_hash", EmptyString))
          IN
          IF verdict = "raise"
            THEN /\ last' = base(500, "Internal Server Error")
                 /\ UNCHANGED issued
          ELSE IF verdict = "false"
            THEN /\ last' = base(400, "Incorrect email or password")
                 /\ UNCHANGED issued
          ELSE LET access_token ==
                     create_access_token([sub |-> user.email], NoDelta, now)
                   grant == Grant(access_token, [sub |-> username]) IN
               /\ Cardinality(issued \cup {grant}) <= MaxTokens
               /\ issued' = issued \cup {grant}
               /\ last' = [base(200, "") EXCEPT !.out = access_token]
  /\ UNCHANGED <<dbConfigured, store, jobs, now, salts, pc, doc>>

\* ---------------------------------------------------- gated routes
me(token) ==
  /\ last = Idle
  /\ LET gate == get_current_user("me", token) IN
       last' = IF gate.status = 200 THEN [gate EXCEPT !.body = TRUE] ELSE gate
  /\ UNCHANGED <<dbConfigured, store, jobs, now, salts, issued, pc, doc>>

create_job(token, job) ==
  /\ last = Idle
  /\ LET gate == get_current_user("create_job", token) IN
     IF gate.status # 200
       THEN /\ last' = gate
            /\ UNCHANGED jobs
     ELSE LET current_user == CHOOSE u \in gate.ident : TRUE IN
          /\ Len(jobs) < MaxJobs
          /\ jobs' = Append(jobs,
                [id |-> Len(jobs) + 1, title |-> job, status |-> "scheduled",
                 created_by |-> current_user.email,
                 organization |-> current_user.organization])
          /\ last' = [gate EXCEPT !.body = TRUE, !.detail = "Job created"]
  /\ UNCHANGED <<dbConfigured, store, now, salts, issued, pc, doc>>

Take(s, n) == SubSeq(s, 1, IF Len(s) < n THEN Len(s) ELSE n)

\* a Python string is truthy unless None or empty
Truthy(x) == x # None /\ x # ""

\* the listing with no query
JobsFor_Unscoped(current_user) == Take(jobs, JobsLimit)

\* db["job"].find(query).limit(50)
JobsFor(current_user) ==
  LET match(j) ==
        IF Truthy(current_user.organization)
          THEN j.organization = current_user.organization
          ELSE j.created_by = current_user.email
  IN Take(SelectSeq(jobs, match), JobsLimit)

list_jobs(token) ==
  /\ last = Idle
  /\ LET gate == get_current_user("list_jobs", token) IN
     IF gate.status # 200
       THEN last' = gate
     ELSE LET current_user == CHOOSE u \in gate.ident : TRUE IN
          last' = [gate EXCEPT !.body = TRUE, !.items = JobsFor(current_user)]
  /\ UNCHANGED <<dbConfigured, store, jobs, now, salts, issued, pc, doc>>

\* ------------------------------------------------------------- clock
DayTicks == 24 * 60 * 60 * TicksPerSec

\* the clock moves by a tick or by a day, up to a little past one token lifetime
Advance(d) ==
  /\ last = Idle
  /\ now + d <= DefaultTtlTicks + MaxTicks
  /\ (now + d) % DayTicks <= MaxTicks
  /\ now' = now + d
  /\ UNCHANGED <<dbConfigured, store, jobs, salts, issued, pc, doc, last>>

\* the response leaves the server; the next request is then handled
SendResponse ==
  /\ last # Idle
  /\ last' = Idle
  /\ UNCHANGED <<dbConfigured, store, jobs, now, salts, issued, pc, doc>>

\* ------------------------------------------------------ specifications
Next ==
  \/ \E p \in Procs, u \in RegisterInputs : RegisterCheck(p, u)
  \/ \E p \in Procs : RegisterInsert(p)
  \/ \E e \in Usernames, w \in Passwords : login(e, w)
  \/ \E t \in PresentedTokens : me(t)
  \/ \E t \in PresentedTokens, j \in JobInputs : create_job(t, j)
  \/ \E t \in PresentedTokens : list_jobs(t)
  \/ \E d \in {1, DayTicks} : Advance(d)
  \/ SendResponse

Spec == Init /\ [][Next]_vars

\* registration, login and identity resolution: the job routes write only the
\* job collection, which none of these reads
NextAuth ==
  \/ \E p \in Procs, u \in RegisterInputs : RegisterCheck(p, u)
  \/ \E p \in Procs : RegisterInsert(p)
  \/ \E e \in Usernames, w \in Passwords : login(e, w)
  \/ \E t \in PresentedTokens : me(t)
  \/ \E d \in {1, DayTicks} : Advance(d)
  \/ SendResponse

SpecAuth == Init /\ [][NextAuth]_vars

\* the job routes within the lifetime of the tokens (the clock stands still)
NextJobs ==
  \/ \E p \in Procs, u \in RegisterInputs : RegisterCheck(p, u)
  \/ \E p \in Procs : RegisterInsert(p)
  \/ \E e \in Usernames, w \in Passwords : login(e, w)
  \/ \E t \in PresentedTokens, j \in JobInputs : create_job(t, j)
  \/ \E t \in PresentedTokens : list_jobs(t)
  \/ SendResponse

SpecJobs == Init /\ [][NextJobs]_vars

\* registrations processed one at a time
NextSeq ==
  \/ \E p \in Procs, u \in RegisterInputs : Register(p, u)
  \/ \E e \in Usernames, w \in Passwords : login(e, w)
  \/ \E t \in PresentedTokens : me(t)
  \/ \E t \in PresentedTokens, j \in JobInputs : create_job(t, j)
  \/ \E t \in PresentedTokens : list_jobs(t)
  \/ \E d \in {1, DayTicks} : Advance(d)
  \/ SendResponse

SpecSeq == Init /\ [][NextSeq]_vars

\* ================================================================ claims
GatedOps == {"me", "create_job", "list_jobs"}

HasRecord(email) == \E i \in 1..Len(store) : store[i].email = email

SignedAndFresh(token) ==
  /\ token.sig = "ok"
  /\ (token.exp = NoExp \/ token.exp >= now \div TicksPerSec)

\* C1: a gated request (GET /auth/me, POST /jobs, GET /jobs) obtains an
\* Authenticated Identity, and its route body runs, only if the presented
\* token is validly signed, not expired, carries sub, and a credential record
\* with that email is in the store at that moment; otherwise the body does
\* not run.
C1_IdentityOnlyForValidToken ==
  last.op \in GatedOps =>
    /\ (last.ident # {} \/ last.body \/ last.status = 200) =>
         /\ SignedAndFresh(last.token)
         /\ last.token.sub # None
         /\ dbConfigured
         /\ HasRecord(last.token.sub)
    /\ last.body => (last.status = 200 /\ last.ident # {})

C1_Witness ==
  /\ last.op \in GatedOps
  /\ last.body
  /\ last.ident # {}
  /\ last.token.exp # NoExp

\* C2: a token returned by a successful login for user U, presented to a gated
\* route before its expiry with the store available, yields an Authenticated
\* Identity whose email is U's email.
C2_LoginTokenResolvesToUser ==
  \A g \in issued :
    ( /\ last.op \in GatedOps
      /\ last.token = g.token
      /\ dbConfigured
      /\ now < g.token.exp * TicksPerSec )
    => /\ last.status = 200
       /\ last.ident # {}
       /\ \A u \in last.ident : u.email = g.data.sub

C2_Witness ==
  /\ last.op = "me"
  /\ last.status = 200
  /\ now > 0
  /\ Len(store) > Len(InitialStore)
  /\ \E g \in issued : g.token = last.token /\ g.data.sub = "b@x.com"

\* C3: with registrations processed one at a time, register with an email
\* that already has a credential record is rejected with 400 "Email already
\* registered" and leaves the store unchanged, so the store never holds two
\* records with one email.
OneRecordPerEmail ==
  \A i, j \in 1..Len(store) : store[i].email = store[j].email => i = j

DuplicateRejected ==
  (last = Idle /\ last'.op = "register" /\ HasRecord(last'.email)) =>
    /\ last'.status = 400
    /\ last'.detail = "Email already registered"
    /\ store' = store

C3_SequentialRegisterUnique ==
  []OneRecordPerEmail /\ [][DuplicateRejected]_vars

C3_Witness ==
  /\ last.op = "register"
  /\ last.status = 400
  /\ Len(store) > Len(InitialStore)

\* the first record with this email
FirstRecord(email) ==
  store[CHOOSE i \in 1..Len(store) :
          /\ store[i].email = email
          /\ \A j \in 1..(i - 1) : store[j].email # email]

\* its digest as the password check sees it ("" when the key is missing)
FirstHash(email) ==
  IF "password_hash" \in FirstRecord(email).absent THEN EmptyString
  ELSE FirstRecord(email).password_hash

PasswordMatches(email, password) ==
  /\ HasRecord(email)
  /\ FirstHash(email).kind = "bcrypt"
  /\ FirstHash(email).pw = password

GenericRejection ==
  /\ last.status = 400
  /\ last.detail = "Incorrect email or password"
  /\ last.out = NoToken

\* C4: login answers an unknown email and a known email with a wrong password
\* identically (400 "Incorrect email or password"); a token is issued only
\* when the record exists and the password verifies.
C4_LoginUniformRejection ==
  (last.op = "login" /\ dbConfigured) =>
    /\ ~PasswordMatches(last.email, last.password) => GenericRejection
    /\ last.out # NoToken => PasswordMatches(last.email, last.password)

\* C5: the gate maps failures in a fixed order: an undecodable, expired or
\* sub-less token gets the generic 401 with WWW-Authenticate: Bearer whether
\* or not the store is configured; only a decodable token with sub meets the
\* 500 of an unconfigured store; a decodable token whose subject has no
\* record gets the same generic 401.
Generic401 ==
  /\ last.status = 401
  /\ last.detail = "Could not validate credentials"
  /\ last.challenge = "Bearer"

C5_GateFailureOrder ==
  (last.op \in GatedOps /\ last.token # NoToken) =>
    /\ (~SignedAndFresh(last.token) \/ last.token.sub = None) => Generic401
    /\ (SignedAndFresh(last.token) /\ last.token.sub # None /\ ~dbConfigured) =>
         (last.status = 500 /\ last.detail = "Database not configured")
    /\ (SignedAndFresh(last.token) /\ last.token.sub # None /\ dbConfigured
          /\ ~HasRecord(last.token.sub)) => Generic401
    /\ last.status = 500 =>
         (SignedAndFresh(last.token) /\ last.token.sub # None /\ ~dbConfigured)

C5_Witness ==
  /\ last.op \in GatedOps
  /\ ~dbConfigured
  /\ last.token # NoToken
  /\ last.status = 401

\* C7: password verification fails closed: for a record whose password_hash
\* is malformed or missing, login ends with the generic 400 rejection and
\* never with an unhandled error.
C7_VerifyFailsClosed ==
  ( /\ last.op = "login"
    /\ dbConfigured
    /\ HasRecord(last.email)
    /\ FirstHash(last.email).kind \notin {"bcrypt", "null"} )
  => GenericRejection

\* C8: register is a check followed by a separate insert: a worker that has
\* passed the check inserts its document and answers 200 whatever the store
\* holds by then, so two concurrent requests for one email leave two records.
InsertIsUnconditional ==
  \A p \in Procs :
    (pc[p] = "insert" /\ pc'[p] = "idle") =>
      /\ store' = Append(store, [doc[p] EXCEPT !.id = Len(store) + 1])
      /\ last'.op = "register"
      /\ last'.status = 200

C8_RegisterRace == [][InsertIsUnconditional]_vars

C8_Witness ==
  /\ last.op = "register"
  /\ last.status = 200
  /\ \E i, j \in 1..Len(store) :
       /\ i < j
       /\ store[i].email = store[j].email
       /\ j = Len(store)

StoredActive(email) ==
  IF "is_active" \in FirstRecord(email).absent THEN TRUE
  ELSE FirstRecord(email).is_active

\* C9: is_active never affects authentication: login with the correct
\* password issues a token, and a valid token resolves to an Authenticated
\* Identity carrying the stored flag, for an inactive record as for an
\* active one.
C9_InactiveStillAuthenticates ==
  /\ (last.op = "login" /\ dbConfigured
        /\ PasswordMatches(last.email, last.password)) =>
       (last.status = 200 /\ last.out # NoToken)
  /\ (last.op \in GatedOps /\ dbConfigured /\ SignedAndFresh(last.token)
        /\ last.token.sub # None /\ HasRecord(last.token.sub)) =>
       /\ last.status = 200
       /\ last.ident # {}
       /\ \A u \in last.ident : u.is_active = StoredActive(last.token.sub)

C9_Witness ==
  /\ last.op \in GatedOps
  /\ last.status = 200
  /\ last.token.exp # NoExp
  /\ \E u \in last.ident : ~u.is_active

\* C10: list_jobs returns only stored jobs of the caller's organization when
\* the caller has a non-empty one, and only jobs the caller created
\* otherwise; every stored job has status "scheduled" and the email and
\* organization of its creator's credential record.
ListScoped ==
  (last.op = "list_jobs" /\ last.status = 200) =>
    \A u \in last.ident : \A k \in 1..Len(last.items) :
      /\ \E n \in 1..Len(jobs) : jobs[n] = last.items[k]
      /\ IF u.organization \notin {None, ""}
           THEN last.items[k].organization = u.organization
           ELSE last.items[k].created_by = u.email

JobsStamped ==
  \A n \in 1..Len(jobs) :
    /\ jobs[n].status = "scheduled"
    /\ HasRecord(jobs[n].created_by)
    /\ jobs[n].organization = FirstRecord(jobs[n].created_by).organization

C10_JobTenancy == ListScoped /\ JobsStamped

C10_Witness ==
  /\ last.op = "list_jobs"
  /\ last.status = 200
  /\ Len(last.items) > 0
  /\ Len(last.items) < Len(jobs)

\* ------------------------------------------------- the codec on its own
\* claims and ttls handed to create_access_token, and jwt.decode as called in
\* get_current_user (main.py:91) applied to the result at a later time
ClaimInputs == { [sub |-> "a@x.com"], [sub |-> "b@x.com"], [sub |-> None] }
TtlInputs == {NoDelta, 0, 1, TicksPerSec, DayTicks}

Encode(data, expires_delta) ==
  /\ last = Idle
  /\ LET grant == TimedGrant(create_access_token(data, expires_delta, now),
                             data, expires_delta, now) IN
       /\ Cardinality(issued \cup {grant}) <= MaxTokens
       /\ issued' = issued \cup {grant}
  /\ UNCHANGED <<dbConfigured, store, jobs, now, salts, pc, doc, last>>

Decode(token) ==
  /\ last = Idle
  /\ last' = IF ~DecodeOk(token, now)
               THEN [credentials_exception("decode") EXCEPT !.token = token]
               ELSE [Response("decode", 200, "") EXCEPT !.token = token,
                                                        !.email = token.sub]
  /\ UNCHANGED <<dbConfigured, store, jobs, now, salts, issued, pc, doc>>

NextCodec ==
  \/ \E c \in ClaimInputs, t \in TtlInputs : Encode(c, t)
  \/ \E t \in PresentedTokens : Decode(t)
  \/ \E d \in {1, DayTicks} : Advance(d)
  \/ SendResponse

SpecCodec == Init /\ [][NextCodec]_vars

\* the ttl a call asked for (the documented default when none was given)
AskedTtl(g) == IF g.ttl = NoDelta THEN DefaultTtlTicks ELSE g.ttl

\* C6: for all claims c and every ttl t >= 0, decoding the token that
\* create_access_token(c, t) returned gives c back when done before t has
\* elapsed since issuance and fails with the generic 401 when done after t
\* has elapsed; an expired token fails that way at every retry.
C6_TokenRoundTrip ==
  last.op = "decode" =>
    /\ \A g \in issued :
         last.token = g.token =>
           /\ now - g.at < AskedTtl(g) =>
                (last.status = 200 /\ last.email = g.data.sub)
           /\ now - g.at > AskedTtl(g) => Generic401
    /\ (last.token.exp # NoExp /\ last.token.exp < now \div TicksPerSec) =>
         Generic401

====
